---- MODULE Spec2Model ----
(***************************************************************************)
(* Model of the GS_search importer: Importer.Start, initialImport with its *)
(* errgroup fan-out, the per-page pipeline vectorizePostsPage (fetch ->    *)
(* vectorize -> store), the vectorization client and the store client.     *)
(***************************************************************************)
EXTENDS Integers, Sequences, FiniteSets, TLC

(* ----------------------------- bounds ---------------------------------- *)
\* largest total page count the source reports
MaxPages == 3
\* largest IMPORT_MAX_GOROUTINES explored
MaxConc == 2
\* number of refresh runs explored after the initial import
MaxRefreshes == 2
\* largest total page count the source reports to a whole run of Start
MaxStartPages == 2
\* largest number of texts given to the vectorization client in one call
MaxTexts == 2
\* largest number of documents the store returns to one search
MaxHits == 2

(* --------------------------- program constants ------------------------- *)
StatusOK == 200
ProgressEvery == 10
InitialHitsPerPage == 100
RefreshHitsPerPage == 20
ArticlePrefix == "article:"
StatusBadRequest == 400
StatusMethodNotAllowed == 405
StatusInternalServerError == 500
SearchK == 10

(* ------------------------------ values --------------------------------- *)
\* job 0 is the refresh pipeline of the loop in Start; job p >= 1 is the
\* pipeline of page p of the initial import
RefreshJob == 0
Jobs == 0..MaxPages

\* a JSON field "rendered" that is absent or not a string
Missing == "<missing>"
Rendered == {Missing, "a", "b"}
RECURSIVE SeqsUpTo(_, _)
SeqsUpTo(S, n) ==
    IF n = 0 THEN {<<>>}
    ELSE LET shorter == SeqsUpTo(S, n - 1)
         IN shorter \cup {Append(s, x) : s \in {t \in shorter : Len(t) = n - 1}, x \in S}

\* an error value: the chain of messages produced by fmt.Errorf("...: %w"),
\* outermost first, the page number formatted into it (0 when none is) and
\* the job whose pipeline created it
NoErr == [job |-> -1, chain |-> <<>>, page |-> 0]
NewErr(j, msg, pg) == [job |-> j, chain |-> <<msg>>, page |-> pg]
Wrap(msg, e) == [e EXCEPT !.chain = <<msg>> \o @]
WrapPage(msg, pg, e) == [e EXCEPT !.chain = <<msg>> \o @, !.page = pg]

(* ------------------------- strconv.Atoi -------------------------------- *)
DigitChars == <<"0", "1", "2", "3", "4", "5", "6", "7", "8", "9">>
IsDigit(c) == \E i \in 1..10 : DigitChars[i] = c
DigitVal(c) == (CHOOSE i \in 1..10 : DigitChars[i] = c) - 1

RECURSIVE Itoa(_)
Itoa(n) ==
    IF n < 0 THEN <<"-">> \o Itoa(-n)
    ELSE IF n < 10 THEN <<DigitChars[n + 1]>>
    ELSE Itoa(n \div 10) \o <<DigitChars[(n % 10) + 1]>>

RECURSIVE DigitsVal(_, _)
DigitsVal(s, acc) ==
    IF s = <<>> THEN acc ELSE DigitsVal(Tail(s), acc * 10 + DigitVal(Head(s)))

\* [ok, val]: ok is FALSE for the empty string, a lone sign or a non-digit
Atoi(s) ==
    LET body == IF s # <<>> /\ Head(s) \in {"-", "+"} THEN Tail(s) ELSE s
        neg  == s # <<>> /\ Head(s) = "-"
    IN IF body = <<>> \/ \E i \in 1..Len(body) : ~IsDigit(body[i])
       THEN [ok |-> FALSE, val |-> 0]
       ELSE [ok |-> TRUE,
             val |-> IF neg THEN -DigitsVal(body, 0) ELSE DigitsVal(body, 0)]

(* ------------------------- fetchPostsPage ------------------------------ *)
\* an HTTP exchange with the source: transport = FALSE is a failed Get,
\* bodyOk = FALSE a body that is not a JSON array of posts
OkResponse(total, body) ==
    [transport |-> TRUE, header |-> Itoa(total), status |-> StatusOK,
     bodyOk |-> TRUE, body |-> body]
TransportFault ==
    [transport |-> FALSE, header |-> <<>>, status |-> 0, bodyOk |-> FALSE,
     body |-> <<>>]
\* the other ways an exchange goes wrong: no header, a header that is not a
\* number, a 500 with and without the header, a body that does not decode
ProtocolFaults ==
    {[transport |-> TRUE, header |-> h, status |-> st, bodyOk |-> bo, body |-> <<>>] :
        h \in {<<>>, <<"x">>, Itoa(1)}, st \in {StatusOK, 500}, bo \in BOOLEAN}
    \ {OkResponse(1, <<>>)}
\* the exchanges possible with a source src, when the first page reported
\* `first` pages: the first page is answered one of src.totals, a later
\* request the same total or one that drifted by one of src.drifts
HTTPResponses(src, isFirst, first) ==
    {OkResponse(n, b) :
        n \in IF isFirst THEN src.totals ELSE {first + d : d \in src.drifts},
        b \in src.bodies}
    \cup src.faults

\* a fetch that takes a header it cannot parse for a total of zero pages
fetchPostsPageAnyHeader(j, resp) ==
    LET n == Atoi(resp.header)
    IN IF ~resp.transport
       THEN [posts |-> <<>>, nbPages |-> 0,
             err |-> NewErr(j, "failed to create request", 0)]
       ELSE IF resp.status # StatusOK
       THEN [posts |-> <<>>, nbPages |-> 0,
             err |-> NewErr(j, "failed to fetch posts, status code", 0)]
       ELSE IF ~resp.bodyOk
       THEN [posts |-> <<>>, nbPages |-> 0,
             err |-> NewErr(j, "failed to decode response", 0)]
       ELSE [posts |-> resp.body, nbPages |-> n.val, err |-> NoErr]

fetchPostsPage(j, resp) ==
    LET n == Atoi(resp.header)
    IN IF ~resp.transport
       THEN [posts |-> <<>>, nbPages |-> 0,
             err |-> NewErr(j, "failed to create request", 0)]
       ELSE IF ~n.ok
       THEN [posts |-> <<>>, nbPages |-> 0,
             err |-> NewErr(j, "failed to parse total pages", 0)]
       ELSE IF resp.status # StatusOK
       THEN [posts |-> <<>>, nbPages |-> 0,
             err |-> NewErr(j, "failed to fetch posts, status code", 0)]
       ELSE IF ~resp.bodyOk
       THEN [posts |-> <<>>, nbPages |-> 0,
             err |-> NewErr(j, "failed to decode response", 0)]
       ELSE [posts |-> resp.body, nbPages |-> n.val, err |-> NoErr]

\* post.Title["rendered"].(string): the zero value when the assertion fails
AsString(v) == IF v = Missing THEN "" ELSE v
ToArticle(post) ==
    [Title |-> AsString(post.title), Description |-> AsString(post.excerpt),
     Link |-> post.link]
ToArticles(posts) == [i \in 1..Len(posts) |-> ToArticle(posts[i])]

(* ---------------------- vectorization.Client --------------------------- *)
\* base64 strings the vectorizer may put in "embedding"
WireEmbeddings == {"", "!", "AQ==", "Ag=="}
\* base64.StdEncoding.DecodeString on those strings
B64Decode(w) ==
    CASE w = ""     -> [ok |-> TRUE,  bytes |-> <<>>]
      [] w = "AQ==" -> [ok |-> TRUE,  bytes |-> <<1>>]
      [] w = "Ag==" -> [ok |-> TRUE,  bytes |-> <<2>>]
      [] OTHER      -> [ok |-> FALSE, bytes |-> <<>>]

\* an exchange with the vectorizer service
OkVecResponse(embs) ==
    [transport |-> TRUE, status |-> StatusOK, bodyOk |-> TRUE, embeddings |-> embs]
VecTransportFault ==
    [transport |-> FALSE, status |-> 0, bodyOk |-> FALSE, embeddings |-> <<>>]
VecProtocolFaults ==
    {[transport |-> TRUE, status |-> 500, bodyOk |-> FALSE, embeddings |-> <<>>],
     [transport |-> TRUE, status |-> StatusOK, bodyOk |-> FALSE, embeddings |-> <<>>]}
\* the exchanges possible with a vectorizer answering with the wires and faults
\* of vec: it may answer with more or fewer embeddings than texts
VecResponses(vec) ==
    {OkVecResponse(embs) : embs \in SeqsUpTo(vec.wires, vec.maxLen)}
    \cup vec.faults

RECURSIVE DecodeFrom(_, _, _, _)
DecodeFrom(j, embs, i, acc) ==
    IF i > Len(embs) THEN [embeddings |-> acc, err |-> NoErr, called |-> TRUE]
    ELSE LET d == B64Decode(embs[i])
         IN IF ~d.ok
            THEN [embeddings |-> <<>>, called |-> TRUE,
                  err |-> NewErr(j, "failed to decode embedding bytes at index", 0)]
            ELSE IF Len(d.bytes) = 0
            THEN [embeddings |-> <<>>, called |-> TRUE,
                  err |-> NewErr(j, "received empty embedding at index", 0)]
            ELSE DecodeFrom(j, embs, i + 1, Append(acc, d.bytes))

\* a client that accepts more embeddings than texts
VectorizeBatchAcceptsMore(j, texts, resp) ==
    IF Len(texts) = 0
    THEN [embeddings |-> <<>>, called |-> FALSE,
          err |-> NewErr(j, "texts cannot be empty", 0)]
    ELSE IF ~resp.transport \/ resp.status # StatusOK \/ ~resp.bodyOk
            \/ Len(resp.embeddings) < Len(texts)
    THEN [embeddings |-> <<>>, called |-> TRUE,
          err |-> NewErr(j, "failed to send request to vectorizer", 0)]
    ELSE DecodeFrom(j, resp.embeddings, 1, <<>>)

\* a client that accepts fewer embeddings than texts
VectorizeBatchAcceptsFewer(j, texts, resp) ==
    IF Len(texts) = 0
    THEN [embeddings |-> <<>>, called |-> FALSE,
          err |-> NewErr(j, "texts cannot be empty", 0)]
    ELSE IF ~resp.transport \/ resp.status # StatusOK \/ ~resp.bodyOk
            \/ Len(resp.embeddings) > Len(texts)
    THEN [embeddings |-> <<>>, called |-> TRUE,
          err |-> NewErr(j, "failed to send request to vectorizer", 0)]
    ELSE DecodeFrom(j, resp.embeddings, 1, <<>>)

\* called: whether a request was sent to the service
VectorizeBatch(j, texts, resp) ==
    IF Len(texts) = 0
    THEN [embeddings |-> <<>>, called |-> FALSE,
          err |-> NewErr(j, "texts cannot be empty", 0)]
    ELSE IF ~resp.transport
    THEN [embeddings |-> <<>>, called |-> TRUE,
          err |-> NewErr(j, "failed to send request to vectorizer", 0)]
    ELSE IF resp.status # StatusOK
    THEN [embeddings |-> <<>>, called |-> TRUE,
          err |-> NewErr(j, "vectorizer returned status", 0)]
    ELSE IF ~resp.bodyOk
    THEN [embeddings |-> <<>>, called |-> TRUE,
          err |-> NewErr(j, "failed to unmarshal vectorizer response", 0)]
    ELSE IF Len(resp.embeddings) # Len(texts)
    THEN [embeddings |-> <<>>, called |-> TRUE,
          err |-> NewErr(j, "expected embeddings, got", 0)]
    ELSE DecodeFrom(j, resp.embeddings, 1, <<>>)

\* a Vectorize that hands the empty text to the service
VectorizeTextUnchecked(text, resp) ==
    LET r == VectorizeBatch(-1, <<text>>, resp)
    IN IF r.err # NoErr
       THEN [embedding |-> <<>>, err |-> r.err, called |-> r.called]
       ELSE [embedding |-> r.embeddings[1], err |-> NoErr, called |-> r.called]

\* Client.Vectorize
VectorizeText(text, resp) ==
    IF text = ""
    THEN [embedding |-> <<>>, called |-> FALSE,
          err |-> NewErr(-1, "text cannot be empty", 0)]
    ELSE LET r == VectorizeBatch(-1, <<text>>, resp)
         IN IF r.err # NoErr
            THEN [embedding |-> <<>>, err |-> r.err, called |-> r.called]
            ELSE [embedding |-> r.embeddings[1], err |-> NoErr, called |-> r.called]

(* ------------------------ vectorizeArticles ---------------------------- *)
\* fmt.Sprintf("%s. %s", title, description)
TextOf(article) == <<article.Title, ". ", article.Description>>

\* a pairing that gives the articles the embeddings in the reverse order
vectorizeArticlesReversed(j, articles, resp) ==
    LET texts == [i \in 1..Len(articles) |-> TextOf(articles[i])]
        r     == VectorizeBatch(j, texts, resp)
        n     == Len(r.embeddings)
    IN IF r.err # NoErr
       THEN [vectorized |-> <<>>, embeddings |-> <<>>, called |-> r.called,
             err |-> Wrap("failed to vectorize articles in batch", r.err)]
       ELSE [vectorized |-> [i \in 1..n |->
                               [Article |-> articles[i],
                                Embedding |-> r.embeddings[n + 1 - i]]],
             embeddings |-> r.embeddings, called |-> r.called, err |-> NoErr]

vectorizeArticles(j, articles, resp) ==
    LET texts == [i \in 1..Len(articles) |-> TextOf(articles[i])]
        r     == VectorizeBatch(j, texts, resp)
    IN IF r.err # NoErr
       THEN [vectorized |-> <<>>, embeddings |-> <<>>, called |-> r.called,
             err |-> Wrap("failed to vectorize articles in batch", r.err)]
       ELSE [vectorized |-> [i \in 1..Len(r.embeddings) |->
                               [Article |-> articles[i], Embedding |-> r.embeddings[i]]],
             embeddings |-> r.embeddings, called |-> r.called, err |-> NoErr]

(* -------------------------- store.Client ------------------------------- *)
Titles == {AsString(v) : v \in Rendered}
NoRecord == [title |-> "<none>", link |-> "<none>", embedding |-> <<>>]
Key(title) == <<ArticlePrefix, title>>

\* importer.storeArticles: VectorizedArticle -> store.Article
ToStoreArticles(vas) ==
    [i \in 1..Len(vas) |->
       [Title |-> vas[i].Article.Title, Link |-> vas[i].Article.Link,
        Embedding |-> vas[i].Embedding]]

\* a command that leaves the fields of a hash that exists as they are
HSetNX(st, a) ==
    IF st[Key(a.Title)] # NoRecord THEN st
    ELSE [st EXCEPT ![Key(a.Title)] =
            [title |-> a.Title, link |-> a.Link, embedding |-> a.Embedding]]

\* HSET key title .. link .. embedding ..: the three fields of the hash at
\* the key of the article are set, the hash is created when there is none
HSet(st, a) ==
    [st EXCEPT ![Key(a.Title)] =
        [@ EXCEPT !.title = a.Title, !.link = a.Link, !.embedding = a.Embedding]]

\* Client.StoreArticles, from what became of the commands of its pipeline:
\* failed = some command of the pipeline failed, and Exec returns its error
StoreArticles(j, articles, failed) ==
    IF Len(articles) = 0 THEN [err |-> NoErr, called |-> FALSE]
    ELSE IF failed
    THEN [err |-> NewErr(j, "failed to store articles", 0), called |-> TRUE]
    ELSE [err |-> NoErr, called |-> TRUE]

storeArticles(j, vas, failed) ==
    LET r == StoreArticles(j, ToStoreArticles(vas), failed)
    IN IF r.err # NoErr
       THEN [r EXCEPT !.err = Wrap("failed to store articles", r.err)]
       ELSE r

\* the documents of the index with their distance to the query, in
\* hundredths, and the vector_score field FT.SEARCH returns for them
SearchDocs ==
    {[title |-> "a", link |-> "l1", dist |-> 5, vector_score |-> "0.05"],
     [title |-> "b", link |-> "l2", dist |-> 15, vector_score |-> "0.15"],
     [title |-> "a", link |-> "l3", dist |-> 10, vector_score |-> ""],
     [title |-> "b", link |-> "l4", dist |-> 15, vector_score |-> "x"],
     [title |-> "b", link |-> "l5", dist |-> 20, vector_score |-> "nan"]}

\* what FT.SEARCH answers: an error, or distinct documents sorted by
\* SortBy vector_score, ascending
SearchAnswers ==
    {[ok |-> TRUE, docs |-> d] :
        d \in {q \in SeqsUpTo(SearchDocs, MaxHits) :
                 \A i, j \in 1..Len(q) :
                    i < j => q[i] # q[j] /\ q[i].dist <= q[j].dist}}
    \cup {[ok |-> FALSE, docs |-> <<>>]}

\* the float that is not a number, apart from every distance
NaN == -1

\* fmt.Sscanf(scoreVal, "%f", &score), in hundredths: the score stays 0.0
\* when the field is empty or does not scan; "nan" scans
ParseScore(v) ==
    CASE v = "0.05" -> 5
      [] v = "0.15" -> 15
      [] v = "nan"  -> NaN
      [] OTHER      -> 0

\* Client.VectorSearch, from the answer to its FT.SEARCH
VectorSearch(queryEmbedding, k, ans) ==
    IF ~ans.ok
    THEN [hits |-> <<>>, err |-> NewErr(-1, "vector search failed", 0)]
    ELSE [hits |-> [i \in 1..Len(ans.docs) |->
                      [Title |-> ans.docs[i].title, Link |-> ans.docs[i].link,
                       Score |-> ParseScore(ans.docs[i].vector_score)]],
          err |-> NoErr]

(* ------------------------- retrieval.Server ---------------------------- *)
\* the response to a request that ended at one of the checks
Refused(status, msg, vectorized, requested, searches) ==
    [status |-> status, msg |-> msg, results |-> <<>>, count |-> 0,
     vectorized |-> vectorized, requested |-> requested, searches |-> searches,
     k |-> IF searches > 0 THEN SearchK ELSE 0, embedding |-> <<>>]

\* the hits of the store from the last to the first
ToResultsReversed(hits) ==
    [i \in 1..Len(hits) |->
       [Title |-> hits[Len(hits) + 1 - i].Title,
        URL |-> hits[Len(hits) + 1 - i].Link,
        Score |-> hits[Len(hits) + 1 - i].Score]]

\* the loop of handleSearch over searchResults
ToResults(hits) ==
    [i \in 1..Len(hits) |->
       [Title |-> hits[i].Title, URL |-> hits[i].Link, Score |-> hits[i].Score]]

\* json.Encoder.Encode of the response: a score that is not a number is an
\* unsupported value
Encodes(results) == \A i \in 1..Len(results) : results[i].Score # NaN

\* a handler that searches with an empty embedding when Vectorize failed
handleSearchLenient(req, vresp, ans) ==
    IF req.method # "POST"
    THEN Refused(StatusMethodNotAllowed, "Method not allowed", FALSE, FALSE, 0)
    ELSE IF ~req.bodyOk
    THEN Refused(StatusBadRequest, "Invalid request body", FALSE, FALSE, 0)
    ELSE LET v == VectorizeText(req.query, vresp)
             r == VectorSearch(v.embedding, SearchK, ans)
         IN IF r.err # NoErr
            THEN Refused(StatusInternalServerError, "Vector search failed",
                         TRUE, v.called, 1)
            ELSE IF ~Encodes(ToResults(r.hits))
            THEN Refused(StatusInternalServerError, "Failed to encode response",
                         TRUE, v.called, 1)
            ELSE [status |-> StatusOK, msg |-> "",
                  results |-> ToResults(r.hits), count |-> Len(ToResults(r.hits)),
                  vectorized |-> TRUE, requested |-> v.called,
                  searches |-> 1, k |-> SearchK, embedding |-> v.embedding]

\* Server.handleSearch: vectorized = Vectorize was called, requested = it
\* sent a request to the service, searches = calls of VectorSearch, k and
\* embedding = what VectorSearch was given
handleSearch(req, vresp, ans) ==
    IF req.method # "POST"
    THEN Refused(StatusMethodNotAllowed, "Method not allowed", FALSE, FALSE, 0)
    ELSE IF ~req.bodyOk
    THEN Refused(StatusBadRequest, "Invalid request body", FALSE, FALSE, 0)
    ELSE LET v == VectorizeText(req.query, vresp)
         IN IF v.err # NoErr
            THEN Refused(StatusInternalServerError,
                         "Failed to generate query embedding", TRUE, v.called, 0)
            ELSE LET r == VectorSearch(v.embedding, SearchK, ans)
                 IN IF r.err # NoErr
                    THEN Refused(StatusInternalServerError, "Vector search failed",
                                 TRUE, v.called, 1)
                    ELSE IF ~Encodes(ToResults(r.hits))
                    THEN Refused(StatusInternalServerError,
                                 "Failed to encode response", TRUE, v.called, 1)
                    ELSE [status |-> StatusOK, msg |-> "",
                          results |-> ToResults(r.hits),
                          count |-> Len(ToResults(r.hits)),
                          vectorized |-> TRUE, requested |-> v.called,
                          searches |-> 1, k |-> SearchK, embedding |-> v.embedding]

(* ------------------------------ state ---------------------------------- *)
VARIABLES
    source,        \* what the remote source may answer: bodies, totals, faults
    vectorizer,    \* what the vectorizer service may answer: wires, faults
    pc,            \* position of the goroutine running Importer.Start
    maxGoroutines, \* Importer.maxGoroutines
    indexExists,   \* whether the store holds the index gs_data
    nbPages,       \* initialImport: nbPages returned by the first page
    page,          \* initialImport: loop variable
    job,           \* the running vectorizePostsPage calls, by job
    sem,           \* errgroup: tokens held in the limit semaphore
    wg,            \* errgroup: wait group counter
    grpErr,        \* errgroup: the error kept by errOnce
    importErr,     \* the error initialImport returned
    store,         \* the hash records of the store, by key
    importReqs,    \* requests sent to the source by the initial import, by page
    refreshReqs,   \* requests sent to the source by the refresh loop, by page
    written,       \* batches the initial import wrote with success, by page, in order
    refreshes,     \* refresh runs started
    tickPending,   \* a tick is buffered in ticker.C
    cancelled,     \* ctx.Done() is closed
    logs,          \* messages logged by Start
    progress,      \* "Initial import progress" reports, in order
    failOrder,     \* jobs of the fan-out whose error reached the group, in order
    outcome,       \* how the pipeline of each page of the initial import ended
    drift,         \* a later page reported a total other than nbPages
    call,          \* the last call made on the vectorization client from outside
                   \* the importer: its input, the answer of the service, its result
    srv            \* the last request the retrieval server handled: the request,
                   \* the answers of the vectorizer and of the store, the response

\* what no step of the importer changes
cfgVars == <<source, vectorizer, maxGoroutines, call, srv>>
\* what no call made from outside the importer changes
impVars == <<source, vectorizer, maxGoroutines, pc, indexExists, nbPages, page,
             job, sem, wg, grpErr, importErr, store, importReqs, refreshReqs,
             written, refreshes, tickPending, cancelled, logs, progress,
             failOrder, outcome, drift>>
grpVars == <<sem, wg, grpErr, failOrder>>
tickVars == <<refreshes, tickPending, cancelled>>
reqVars == <<importReqs, refreshReqs, drift>>

vars == <<source, vectorizer, pc, maxGoroutines, indexExists, nbPages, page, job, sem, wg, grpErr,
          importErr, store, importReqs, refreshReqs, written, refreshes,
          tickPending, cancelled, logs, progress, failOrder, outcome, drift,
          call, srv>>

\* no request was handled yet
NoRequest ==
    [req |-> [method |-> "", bodyOk |-> FALSE, query |-> ""],
     vresp |-> VecTransportFault, ans |-> [ok |-> FALSE, docs |-> <<>>],
     out |-> Refused(0, "", FALSE, FALSE, 0)]

\* no call was made yet
NoCall ==
    [op |-> "none", texts |-> <<>>, resp |-> VecTransportFault,
     out |-> [err |-> NoErr, called |-> FALSE]]

Keys == {Key(t) : t \in Titles}
Pages == 1..MaxPages

IdleJob ==
    [phase |-> "idle", page |-> 0, hits |-> 0, posts |-> <<>>, articles |-> <<>>,
     embs |-> <<>>, vecs |-> <<>>, sent |-> 0, failed |-> FALSE, n |-> 0,
     err |-> NoErr]
\* a call vectorizePostsPage(ctx, pg, hits) that has just been entered
Entered(pg, hits) == [IdleJob EXCEPT !.phase = "started", !.page = pg, !.hits = hits]
\* the call has returned (n, err)
Returning(j, n, e) ==
    [IdleJob EXCEPT !.phase = "returning", !.page = job[j].page,
                    !.hits = job[j].hits, !.n = n, !.err = e]

Running == {"started", "fetched", "vectorized", "returning"}
\* the fan-out tasks that have started and not finished
InFlight == {j \in 2..MaxPages : job[j].phase \in Running}

\* the state when Start is called
StartState ==
    /\ pc = "createIndex"
    /\ maxGoroutines \in 0..MaxConc
    /\ indexExists \in BOOLEAN
    /\ nbPages = 0
    /\ page = 0
    /\ job = [j \in Jobs |-> IdleJob]
    /\ sem = 0
    /\ wg = 0
    /\ grpErr = NoErr
    /\ importErr = NoErr
    /\ store = [k \in Keys |-> NoRecord]
    /\ importReqs = [p \in Pages |-> 0]
    /\ refreshReqs = [p \in Pages |-> 0]
    /\ written = [p \in Pages |-> <<>>]
    /\ refreshes = 0
    /\ tickPending = FALSE
    /\ cancelled = FALSE
    /\ logs = {}
    /\ progress = <<>>
    /\ failOrder = <<>>
    /\ outcome = [p \in Pages |-> "none"]
    /\ drift = FALSE
    /\ call = NoCall
    /\ srv = NoRequest

\* a source with two posts of different titles whose exchanges fail at the
\* transport only, and a vectorizer with one embedding
PostA == [title |-> "a", excerpt |-> "x", link |-> "l1"]
PostB == [title |-> "b", excerpt |-> Missing, link |-> "l2"]
PlainSource(maxTotal) ==
    [bodies |-> {<<>>, <<PostA>>, <<PostB>>}, totals |-> 0..maxTotal,
     drifts |-> {0, 1}, faults |-> {TransportFault}]
PlainVectorizer ==
    [wires |-> {"AQ=="}, maxLen |-> 2, faults |-> {VecTransportFault}]

\* a source whose pages hold two posts, some of them under one title with
\* different links, and whose exchanges fail in every way; a vectorizer that
\* answers with any embeddings, fewer or more than asked for, or fails
PostA2 == [title |-> "a", excerpt |-> "y", link |-> "l3"]
RichSource ==
    [bodies |-> {<<>>, <<PostA, PostB>>, <<PostB, PostA2>>, <<PostA, PostA2>>},
     totals |-> {1}, drifts |-> {1},
     faults |-> {TransportFault} \cup ProtocolFaults]
RichVectorizer ==
    [wires |-> WireEmbeddings, maxLen |-> MaxTexts + 1,
     faults |-> {VecTransportFault} \cup VecProtocolFaults]

\* main: Start is called on a new Importer
Init ==
    /\ source = PlainSource(MaxStartPages)
    /\ vectorizer = PlainVectorizer
    /\ StartState

\* initialImport is called by Start on a new Importer
ImportEntry ==
    /\ pc = "firstPage"
    /\ maxGoroutines \in 0..MaxConc
    /\ indexExists = FALSE
    /\ nbPages = 0
    /\ page = 0
    /\ job = [j \in Jobs |-> IF j = 1 THEN Entered(1, InitialHitsPerPage) ELSE IdleJob]
    /\ sem = 0
    /\ wg = 0
    /\ grpErr = NoErr
    /\ importErr = NoErr
    /\ store = [k \in Keys |-> NoRecord]
    /\ importReqs = [p \in Pages |-> 0]
    /\ refreshReqs = [p \in Pages |-> 0]
    /\ written = [p \in Pages |-> <<>>]
    /\ refreshes = 0
    /\ tickPending = FALSE
    /\ cancelled = FALSE
    /\ logs = {}
    /\ progress = <<>>
    /\ failOrder = <<>>
    /\ outcome = [p \in Pages |-> "none"]
    /\ drift = FALSE
    /\ call = NoCall
    /\ srv = NoRequest

ImportInit ==
    /\ source = PlainSource(MaxPages)
    /\ vectorizer = PlainVectorizer
    /\ ImportEntry

\* a source of three pages of one post each, all under one title, with two
\* different links, and a vectorizer with two embeddings
SameTitleSource ==
    [bodies |-> {<<PostA>>, <<PostA2>>}, totals |-> {3}, drifts |-> {0},
     faults |-> {}]
TwoVectorizer ==
    [wires |-> {"AQ==", "Ag=="}, maxLen |-> 1, faults |-> {}]

OverwriteInit ==
    /\ source = SameTitleSource
    /\ vectorizer = TwoVectorizer
    /\ ImportEntry

(* ----------------------- vectorizePostsPage ---------------------------- *)
\* the outcome of the pipeline of job j, which returns e
Ended(j, e) ==
    IF j = RefreshJob THEN outcome
    ELSE [outcome EXCEPT ![job[j].page] = IF e = NoErr THEN "ok" ELSE "err"]

\* fetchPostsPage and the conversion of the posts to articles
Fetch(j) ==
    /\ job[j].phase = "started"
    /\ \E resp \in HTTPResponses(source, pc = "firstPage", nbPages) :
         LET r  == fetchPostsPage(j, resp)
             pg == job[j].page
             e  == WrapPage("failed to fetch posts for page", pg, r.err)
         IN /\ IF r.err # NoErr
               THEN /\ job' = [job EXCEPT ![j] = Returning(j, 0, e)]
                    /\ outcome' = Ended(j, e)
               ELSE /\ job' = [job EXCEPT ![j] =
                          [@ EXCEPT !.phase = "fetched",
                                    !.posts = r.posts,
                                    !.articles = ToArticles(r.posts),
                                    !.n = r.nbPages]]
                    /\ UNCHANGED outcome
            /\ IF j = RefreshJob
               THEN /\ refreshReqs' = [refreshReqs EXCEPT ![pg] = @ + 1]
                    /\ UNCHANGED importReqs
               ELSE /\ importReqs' = [importReqs EXCEPT ![pg] = @ + 1]
                    /\ UNCHANGED refreshReqs
            /\ drift' = (drift \/ (j >= 2 /\ r.err = NoErr /\ r.nbPages # nbPages))
    /\ UNCHANGED <<cfgVars, grpVars, tickVars, pc, indexExists, nbPages, page,
                   importErr, store, written, logs, progress>>

\* vectorizeArticles
Vectorize(j) ==
    /\ job[j].phase = "fetched"
    /\ \E resp \in VecResponses(vectorizer) :
         LET r == vectorizeArticles(j, job[j].articles, resp)
             e == Wrap("failed to vectorize articles", r.err)
         IN IF r.err # NoErr
            THEN /\ job' = [job EXCEPT ![j] = Returning(j, 0, e)]
                 /\ outcome' = Ended(j, e)
            ELSE /\ job' = [job EXCEPT ![j] =
                       [@ EXCEPT !.phase = "vectorized",
                                 !.embs = r.embeddings, !.vecs = r.vectorized]]
                 /\ UNCHANGED outcome
    /\ UNCHANGED <<cfgVars, grpVars, tickVars, reqVars, pc, indexExists, nbPages,
                   page, importErr, store, written, logs, progress>>

\* what becomes of one command of a pipeline: it takes effect and its reply
\* is read, it is refused or never reaches the store, or it takes effect and
\* its reply is lost with the connection
CmdOutcomes == {"ok", "refused", "lost"}

\* storeArticles: the store processes the next command of the pipeline, and
\* with the last one Exec and vectorizePostsPage return; the commands of the
\* pipelines of other calls may be processed in between
StoreStep(j) ==
    /\ job[j].phase = "vectorized"
    /\ LET arts == ToStoreArticles(job[j].vecs)
           k    == job[j].sent + 1
       IN \E cmd \in IF arts = <<>> THEN {"ok"} ELSE CmdOutcomes :
            LET failed == job[j].failed \/ cmd # "ok"
                r      == storeArticles(j, job[j].vecs, failed)
                e      == IF r.err # NoErr
                          THEN Wrap("failed to store articles", r.err) ELSE NoErr
            IN /\ store' = IF arts # <<>> /\ cmd # "refused" THEN HSet(store, arts[k])
                           ELSE store
               /\ IF k < Len(arts)
                  THEN /\ job' = [job EXCEPT ![j] =
                             [@ EXCEPT !.sent = k, !.failed = failed]]
                       /\ UNCHANGED <<outcome, written>>
                  ELSE /\ job' = [job EXCEPT ![j] =
                             Returning(j, IF e # NoErr THEN 0 ELSE job[j].n, e)]
                       /\ outcome' = Ended(j, e)
                       /\ written' =
                             IF j # RefreshJob /\ r.err = NoErr /\ r.called
                             THEN [written EXCEPT ![job[j].page] = Append(@, arts)]
                             ELSE written
    /\ UNCHANGED <<cfgVars, grpVars, tickVars, reqVars, pc, indexExists, nbPages,
                   page, importErr, logs, progress>>

(* --------------------------- Importer.Start ---------------------------- *)
\* what the store answers to FT.CREATE: the index is created, it exists
\* already, or the command fails for another reason
FTCreateAnswers(exists) ==
    {IF exists THEN "Index already exists" ELSE "OK", "connection refused"}

\* Client.CreateVectorIndex, from the answer to its FT.CREATE
CreateVectorIndex(ans) ==
    IF ans = "OK" THEN NoErr
    ELSE IF ans = "Index already exists" THEN NoErr
    ELSE Wrap("failed to create index", NewErr(-1, ans, 0))

\* store.CreateVectorIndex, its error logged, then the call of initialImport
CreateIndex ==
    /\ pc = "createIndex"
    /\ \E ans \in FTCreateAnswers(indexExists) :
         LET err == CreateVectorIndex(ans)
         IN /\ indexExists' = (indexExists \/ ans = "OK")
            /\ logs' = IF err # NoErr THEN logs \cup {"Failed to create index"}
                       ELSE logs
    /\ pc' = "firstPage"
    /\ job' = [job EXCEPT ![1] = Entered(1, InitialHitsPerPage)]
    /\ UNCHANGED <<cfgVars, grpVars, tickVars, reqVars, nbPages, page, importErr,
                   store, written, progress, outcome>>

\* an initialImport that ignores the error of the first page
FirstPageFailedIgnored(e) == FALSE

\* initialImport: whether the error of the first page ends the import
FirstPageFailed(e) == e # NoErr

\* initialImport: the first page has returned
FirstPageReturn ==
    /\ pc = "firstPage"
    /\ job[1].phase = "returning"
    /\ job' = [job EXCEPT ![1] = [IdleJob EXCEPT !.phase = "finished"]]
    /\ IF FirstPageFailed(job[1].err)
       THEN /\ importErr' = Wrap("failed to fetch number of pages", job[1].err)
            /\ pc' = "imported"
            /\ UNCHANGED <<nbPages, page>>
       ELSE /\ nbPages' = job[1].n
            /\ page' = 2
            /\ pc' = "dispatch"
            /\ UNCHANGED importErr
    /\ UNCHANGED <<cfgVars, grpVars, tickVars, reqVars, indexExists, store,
                   written, logs, progress, outcome>>

\* a loop that runs one page too far
LoopCondOffByOne == page <= nbPages + 1

\* a loop that stops dispatching once a task has failed
LoopCondStopOnError == page <= nbPages /\ grpErr = NoErr

\* a loop that stops dispatching once the context is cancelled
LoopCondUntilCancelled == page <= nbPages /\ ~cancelled

\* the condition of the loop of initialImport
LoopCond == page <= nbPages

\* a group without limit
GoAdmitsUnlimited == TRUE

\* a group whose limit is off by one
GoAdmitsOffByOne == sem + 1 < maxGoroutines

\* a group whose limit is at least one, whatever the configuration says
GoAdmitsAtLeastOne == sem < (IF maxGoroutines < 1 THEN 1 ELSE maxGoroutines)

\* errgroup.Group.Go: blocks while the semaphore is full
GoAdmits == sem < maxGoroutines

\* a loop that reports its progress at every page
ProgressDueEveryPage(pg, n) == n > 0

\* the condition of the progress report of the loop
ProgressDue(pg, n) == pg % ProgressEvery = 0 /\ n > 0

\* one iteration of the loop of initialImport: grp.Go and the progress report
Dispatch ==
    /\ pc = "dispatch"
    /\ LoopCond
    /\ GoAdmits
    /\ sem' = sem + 1
    /\ wg' = wg + 1
    /\ job' = [job EXCEPT ![page] = Entered(page, InitialHitsPerPage)]
    /\ progress' = IF ProgressDue(page, nbPages)
                   THEN Append(progress,
                               [page |-> page, percent |-> (page * 100) \div nbPages])
                   ELSE progress
    /\ page' = page + 1
    /\ UNCHANGED <<cfgVars, tickVars, reqVars, pc, indexExists, nbPages, grpErr,
                   failOrder, importErr, store, written, logs, outcome>>

\* the loop of initialImport ends
LoopExit ==
    /\ pc = "dispatch"
    /\ ~LoopCond
    /\ pc' = "wait"
    /\ UNCHANGED <<cfgVars, grpVars, tickVars, reqVars, indexExists, nbPages, page,
                   job, importErr, store, written, logs, progress, outcome>>

\* a group that keeps the last error
RecordLast(kept, e) == IF e # NoErr THEN e ELSE kept

\* a group that drops the errors of its tasks
RecordNone(kept, e) == kept

\* errgroup: what errOnce keeps when a task returns e
Record(kept, e) == IF e # NoErr /\ kept = NoErr THEN e ELSE kept

\* errgroup: the goroutine started by Go ends: errOnce, then done()
TaskDone(j) ==
    /\ j >= 2
    /\ job[j].phase = "returning"
    /\ grpErr' = Record(grpErr, job[j].err)
    /\ failOrder' = IF job[j].err # NoErr THEN Append(failOrder, j) ELSE failOrder
    /\ sem' = sem - 1
    /\ wg' = wg - 1
    /\ job' = [job EXCEPT ![j] = [IdleJob EXCEPT !.phase = "finished"]]
    /\ UNCHANGED <<cfgVars, tickVars, reqVars, pc, indexExists, nbPages, page,
                   importErr, store, written, logs, progress, outcome>>

\* a Wait that returns as soon as an error is recorded
WaitReturnsOnError == wg = 0 \/ grpErr # NoErr

\* errgroup.Group.Wait returns once the wait group is at zero
WaitReturns == wg = 0

\* grp.Wait and the return of initialImport
Wait ==
    /\ pc = "wait"
    /\ WaitReturns
    /\ importErr' = IF grpErr # NoErr
                    THEN Wrap("error during initial import", grpErr) ELSE NoErr
    /\ pc' = "imported"
    /\ UNCHANGED <<cfgVars, grpVars, tickVars, reqVars, indexExists, nbPages, page,
                   job, store, written, logs, progress, outcome>>

\* a Start that returns when the initial import failed
AfterImportPcFatal(e) == IF e # NoErr THEN "stopped" ELSE "loop"

\* Start: where it goes on after initialImport returned e
AfterImportPc(e) == "loop"

\* Start: initialImport has returned; its error is logged, the loop entered
AfterImport ==
    /\ pc = "imported"
    /\ logs' = (IF importErr # NoErr
                THEN logs \cup {"Failed to perform initial import"}
                ELSE logs) \cup {"Starting iterative pulling"}
    /\ pc' = AfterImportPc(importErr)
    /\ UNCHANGED <<cfgVars, grpVars, tickVars, reqVars, indexExists, nbPages, page,
                   job, importErr, store, written, progress, outcome>>

\* a refresh that walks through the pages, one page further at each tick
RefreshCallNextPage == Entered(refreshes + 1, RefreshHitsPerPage)

\* the call vectorizePostsPage(ctx, 1, 20) of the loop
RefreshCall == Entered(1, RefreshHitsPerPage)

\* select: case <-ticker.C
LoopTick ==
    /\ pc = "loop"
    /\ tickPending
    /\ refreshes < MaxRefreshes
    /\ tickPending' = FALSE
    /\ refreshes' = refreshes + 1
    /\ job' = [job EXCEPT ![RefreshJob] = RefreshCall]
    /\ pc' = "refresh"
    /\ UNCHANGED <<cfgVars, grpVars, reqVars, indexExists, nbPages, page, importErr,
                   store, written, cancelled, logs, progress, outcome>>

\* a loop that ends when a refresh failed
AfterRefreshPcFatal(e) == IF e # NoErr THEN "stopped" ELSE "loop"

\* Start: where it goes on after the refresh returned e
AfterRefreshPc(e) == "loop"

\* the refresh has returned: its error is logged and the loop goes on
RefreshReturn ==
    /\ pc = "refresh"
    /\ job[RefreshJob].phase = "returning"
    /\ logs' = IF job[RefreshJob].err # NoErr
               THEN logs \cup {"Failed to pull last posts"} ELSE logs
    /\ job' = [job EXCEPT ![RefreshJob] = IdleJob]
    /\ pc' = AfterRefreshPc(job[RefreshJob].err)
    /\ UNCHANGED <<cfgVars, grpVars, tickVars, reqVars, indexExists, nbPages, page,
                   importErr, store, written, progress, outcome>>

\* a context whose Done channel is never ready
DoneReadyNever == FALSE

\* ctx.Done() is ready to be received from: the context was cancelled
DoneReady == cancelled

\* select: case <-ctx.Done()
LoopDone ==
    /\ pc = "loop"
    /\ DoneReady
    /\ logs' = logs \cup {"Stopping importer"}
    /\ pc' = "stopped"
    /\ UNCHANGED <<cfgVars, grpVars, tickVars, reqVars, indexExists, nbPages, page,
                   job, importErr, store, written, progress, outcome>>

(* ---------------------------- environment ------------------------------ *)
\* the ticker fires; ticker.C holds one tick, a tick that finds it full is dropped
Tick ==
    /\ pc # "stopped"
    /\ ~tickPending
    /\ tickPending' = TRUE
    /\ UNCHANGED <<cfgVars, grpVars, reqVars, pc, indexExists, nbPages, page, job,
                   importErr, store, written, refreshes, cancelled, logs, progress,
                   outcome>>

\* the context given to Start is cancelled
Cancel ==
    /\ ~cancelled
    /\ cancelled' = TRUE
    /\ UNCHANGED <<cfgVars, grpVars, reqVars, pc, indexExists, nbPages, page, job,
                   importErr, store, written, refreshes, tickPending, logs,
                   progress, outcome>>

Next ==
    \/ CreateIndex
    \/ \E j \in Jobs : Fetch(j)
    \/ \E j \in Jobs : Vectorize(j)
    \/ \E j \in Jobs : StoreStep(j)
    \/ FirstPageReturn
    \/ Dispatch
    \/ LoopExit
    \/ \E j \in Jobs : TaskDone(j)
    \/ Wait
    \/ AfterImport
    \/ LoopTick
    \/ RefreshReturn
    \/ LoopDone
    \/ Tick
    \/ Cancel

Spec == Init /\ [][Next]_vars

(* ------------------- calls on the vectorization client ----------------- *)
\* the texts a caller hands to the client
ClientTexts == {"", "q", "r"}

\* a caller calls VectorizeBatch(texts); resp is what the service answers to
\* the request, when one is sent
CallVectorizeBatch ==
    /\ call = NoCall
    /\ \E texts \in SeqsUpTo(ClientTexts, MaxTexts), resp \in VecResponses(vectorizer) :
         call' = [op |-> "VectorizeBatch", texts |-> texts, resp |-> resp,
                  out |-> VectorizeBatch(-1, texts, resp)]
    /\ UNCHANGED <<impVars, srv>>

\* a caller calls Vectorize(text)
CallVectorize ==
    /\ call = NoCall
    /\ \E text \in ClientTexts, resp \in VecResponses(vectorizer) :
         call' = [op |-> "Vectorize", texts |-> <<text>>, resp |-> resp,
                  out |-> VectorizeText(text, resp)]
    /\ UNCHANGED <<impVars, srv>>

\* a new client, of a new Importer, and the first call made on it
ClientInit ==
    /\ source = PlainSource(0)
    /\ vectorizer = RichVectorizer
    /\ StartState

NextClient ==
    \/ CallVectorizeBatch
    \/ CallVectorize

ClientSpec == ClientInit /\ [][NextClient]_vars

(* ---------------------- requests to the server ------------------------- *)
\* the requests sent to /search: the body decodes to a SearchRequest or not
SearchRequests ==
    {[method |-> m, bodyOk |-> b, query |-> q] :
        m \in {"POST", "GET"}, b \in BOOLEAN, q \in ClientTexts}

\* the server handles a request to /search; vresp and ans are what the
\* vectorizer service and the store answer, when they are asked
HandleSearch ==
    /\ srv = NoRequest
    /\ \E req \in SearchRequests, vresp \in VecResponses(vectorizer),
          ans \in SearchAnswers :
         srv' = [req |-> req, vresp |-> vresp, ans |-> ans,
                 out |-> handleSearch(req, vresp, ans)]
    /\ UNCHANGED <<impVars, call>>

\* a new server, next to a new Importer, and the first request it handles
ServerInit ==
    /\ source = PlainSource(0)
    /\ vectorizer = RichVectorizer
    /\ StartState

NextServer == HandleSearch

ServerSpec == ServerInit /\ [][NextServer]_vars

\* a request was handled
Handled == srv # NoRequest

\* the steps of a refresh and its return to the select
RefreshSteps ==
    \/ Fetch(RefreshJob)
    \/ Vectorize(RefreshJob)
    \/ StoreStep(RefreshJob)
    \/ RefreshReturn

\* the error initialImport returns when the Get of its first page failed
FirstGetFailed ==
    Wrap("failed to fetch number of pages",
         WrapPage("failed to fetch posts for page", 1,
                  fetchPostsPage(1, TransportFault).err))

\* Start enters its loop after an initial import whose first Get failed
LoopEntry ==
    /\ pc = "loop"
    /\ maxGoroutines = 1
    /\ indexExists = TRUE
    /\ nbPages = 0
    /\ page = 0
    /\ job = [j \in Jobs |-> IF j = 1 THEN [IdleJob EXCEPT !.phase = "finished"]
                              ELSE IdleJob]
    /\ sem = 0
    /\ wg = 0
    /\ grpErr = NoErr
    /\ importErr = FirstGetFailed
    /\ store = [k \in Keys |-> NoRecord]
    /\ importReqs = [p \in Pages |-> IF p = 1 THEN 1 ELSE 0]
    /\ refreshReqs = [p \in Pages |-> 0]
    /\ written = [p \in Pages |-> <<>>]
    /\ refreshes = 0
    /\ tickPending = FALSE
    /\ cancelled = FALSE
    /\ logs = {"Failed to perform initial import", "Starting iterative pulling"}
    /\ progress = <<>>
    /\ failOrder = <<>>
    /\ outcome = [p \in Pages |-> IF p = 1 THEN "err" ELSE "none"]
    /\ drift = FALSE
    /\ call = NoCall
    /\ srv = NoRequest

LoopInit ==
    /\ source = PlainSource(MaxStartPages)
    /\ vectorizer = PlainVectorizer
    /\ LoopEntry

\* the loop of Start, its refreshes, the ticker and the cancellation
NextLoop ==
    \/ LoopTick
    \/ RefreshSteps
    \/ LoopDone
    \/ Tick
    \/ Cancel

LoopSpec == LoopInit /\ [][NextLoop]_vars

\* Start has entered its loop, with a context that is never cancelled, as the
\* one main gives it
RefreshInit ==
    /\ source = RichSource
    /\ vectorizer = RichVectorizer
    /\ LoopEntry

\* the refreshes of the loop, one after the other on the same store
NextRefresh ==
    \/ LoopTick
    \/ RefreshSteps
    \/ Tick

RefreshSpec == RefreshInit /\ [][NextRefresh]_vars

\* every network call of a refresh returns, and the select of the loop, which
\* chooses at random among its ready cases, does not leave a ready ctx.Done()
\* aside at every one of its checks
FairLoopSpec == LoopSpec /\ WF_vars(RefreshSteps) /\ SF_vars(LoopDone)

\* a source some of whose posts carry no title that is a string, and the
\* refreshes of the loop on it
PostU == [title |-> Missing, excerpt |-> "x", link |-> "l4"]
PostU2 == [title |-> Missing, excerpt |-> "y", link |-> "l5"]
UntitledSource ==
    [bodies |-> {<<PostA>>, <<PostU>>, <<PostA, PostU>>, <<PostU, PostU2>>},
     totals |-> {1}, drifts |-> {0}, faults |-> {TransportFault}]
TitleInit ==
    /\ source = UntitledSource
    /\ vectorizer = PlainVectorizer
    /\ LoopEntry

TitleSpec == TitleInit /\ [][NextRefresh]_vars

\* the pages of an import long enough to report its progress
ProgressPages == ProgressEvery + 1
LongRun == 1..ProgressPages

\* a source of as many pages, or one less, of one post each, that answers
\* the request for its first page and is out of reach for the later ones
LongSource ==
    [bodies |-> {<<PostA>>}, totals |-> {ProgressEvery, ProgressPages},
     drifts |-> {}, faults |-> {TransportFault}]

\* initialImport is called by Start on a new Importer, for that source
ProgressInit ==
    /\ source = LongSource
    /\ vectorizer = [PlainVectorizer EXCEPT !.maxLen = 1, !.faults = {}]
    /\ pc = "firstPage"
    /\ maxGoroutines \in 0..MaxConc
    /\ indexExists = FALSE
    /\ nbPages = 0
    /\ page = 0
    /\ job = [j \in 0..ProgressPages |->
                IF j = 1 THEN Entered(1, InitialHitsPerPage) ELSE IdleJob]
    /\ sem = 0
    /\ wg = 0
    /\ grpErr = NoErr
    /\ importErr = NoErr
    /\ store = [k \in Keys |-> NoRecord]
    /\ importReqs = [p \in LongRun |-> 0]
    /\ refreshReqs = [p \in LongRun |-> 0]
    /\ written = [p \in LongRun |-> <<>>]
    /\ refreshes = 0
    /\ tickPending = FALSE
    /\ cancelled = FALSE
    /\ logs = {}
    /\ progress = <<>>
    /\ failOrder = <<>>
    /\ outcome = [p \in LongRun |-> "none"]
    /\ drift = FALSE
    /\ call = NoCall
    /\ srv = NoRequest

NextProgress ==
    \/ \E j \in LongRun : Fetch(j)
    \/ \E j \in LongRun : Vectorize(j)
    \/ \E j \in LongRun : StoreStep(j)
    \/ FirstPageReturn
    \/ Dispatch
    \/ LoopExit
    \/ \E j \in LongRun : TaskDone(j)
    \/ Wait

ProgressSpec == ProgressInit /\ [][NextProgress]_vars

\* the steps of initialImport and of its page tasks
NextImport ==
    \/ \E j \in Pages : Fetch(j)
    \/ \E j \in Pages : Vectorize(j)
    \/ \E j \in Pages : StoreStep(j)
    \/ FirstPageReturn
    \/ Dispatch
    \/ LoopExit
    \/ \E j \in Pages : TaskDone(j)
    \/ Wait

ImportSpec == ImportInit /\ [][NextImport]_vars

\* the initial import and the refreshes that follow it, with a context that
\* is never cancelled
NextOverwrite ==
    \/ NextImport
    \/ AfterImport
    \/ NextRefresh

OverwriteSpec == OverwriteInit /\ [][NextOverwrite]_vars

\* every network call returns and a goroutine that can take a step is
\* scheduled: the import does not stop while one of its steps is possible
FairImportSpec == ImportSpec /\ WF_vars(NextImport)

(* ======================= properties of initialImport =================== *)
\* initialImport has returned
ImportReturned == pc \in {"imported", "loop", "refresh", "stopped"}
\* the first page pipeline succeeded and the fan-out was entered
FannedOut == outcome[1] = "ok" /\ pc # "firstPage"
\* every article of the batch has a record under its key
BatchStored(batch) ==
    \A i \in 1..Len(batch) :
       /\ store[Key(batch[i].Title)] # NoRecord
       /\ store[Key(batch[i].Title)].title = batch[i].Title
\* a task of the fan-out is started in this step
TaskStarts(p) == job[p].phase = "idle" /\ job'[p].phase = "started"

\* C1: with maxGoroutines = C >= 1 at most C page tasks of the fan-out have
\* started and not finished, in every state, and a task is started only while
\* fewer than C are in flight
C1_ConcurrencyBound ==
    /\ [](maxGoroutines >= 1 => Cardinality(InFlight) <= maxGoroutines)
    /\ [][\A p \in 2..MaxPages :
            TaskStarts(p) => Cardinality(InFlight) < maxGoroutines]_vars

\* the dispatch of the next page is blocked by C tasks in flight
C1_Witness ==
    /\ pc = "dispatch"
    /\ LoopCond
    /\ maxGoroutines >= 1
    /\ Cardinality(InFlight) = maxGoroutines

\* C2: when page 1 succeeded with total N >= 1, no page is requested twice,
\* no page outside 1..N is requested, and once the import has returned the
\* pages requested are exactly 1..N, whatever totals later pages reported;
\* when every pipeline succeeded each page was written exactly once, every
\* written article has its record and the import returned no error
C2_PagesOnce ==
    (FannedOut /\ nbPages >= 1) =>
       /\ \A p \in Pages : importReqs[p] <= 1
       /\ \A p \in Pages : p > nbPages => importReqs[p] = 0
       /\ pc = "imported" =>
            /\ \A p \in 1..nbPages : importReqs[p] = 1
            /\ (\A p \in 1..nbPages : outcome[p] = "ok") =>
                 /\ importErr = NoErr
                 /\ \A p \in 1..nbPages :
                      Len(written[p]) = 1 /\ BatchStored(written[p][1])

\* an import of several pages succeeded although a later page reported
\* another total
C2_Witness ==
    /\ pc = "imported"
    /\ nbPages >= 2
    /\ drift
    /\ importErr = NoErr
    /\ \A p \in 1..nbPages : Len(written[p]) = 1

\* C3: when initialImport has returned, it returned an error exactly when the
\* pipeline of some page failed, and no error only when the pipeline of
\* every page 1..N ended without error
C3_FailureIff ==
    pc = "imported" =>
       /\ importErr # NoErr <=> \E p \in Pages : outcome[p] = "err"
       /\ importErr = NoErr => \A p \in 1..nbPages : outcome[p] = "ok"

\* the import failed because of one task of the fan-out only
C3_Witness ==
    /\ pc = "imported"
    /\ importErr # NoErr
    /\ outcome[1] = "ok"
    /\ Cardinality({p \in Pages : outcome[p] = "err"}) = 1

\* C4: when initialImport returns after the fan-out, every page 2..N was
\* dispatched and its pipeline ran to its end, also when another page
\* failed, and the batch of every page that succeeded is in the store; no
\* step removes a record from the store
C4_NoRollback ==
    /\ []((pc = "imported" /\ FannedOut) =>
            /\ \A p \in 2..nbPages : outcome[p] # "none" /\ job[p].phase = "finished"
            /\ \A p \in 1..nbPages :
                 outcome[p] = "ok" =>
                    Len(written[p]) = 1 /\ BatchStored(written[p][1]))
    /\ [][\A k \in Keys : store[k] # NoRecord => store'[k] # NoRecord]_vars

\* with one task at a time page 2 failed before page 3 was dispatched, and
\* page 3 was still stored
C4_Witness ==
    /\ pc = "imported"
    /\ maxGoroutines = 1
    /\ nbPages = 3
    /\ outcome[2] = "err"
    /\ outcome[3] = "ok"
    /\ importErr # NoErr

\* C5: once initialImport has returned no page task is in flight: every
\* task that was dispatched has finished and the group holds no token
C5_Drained ==
    ImportReturned =>
       /\ InFlight = {}
       /\ \A p \in 2..MaxPages : job[p].phase \in {"idle", "finished"}
       /\ \A p \in 2..MaxPages : p < page => job[p].phase = "finished"
       /\ sem = 0 /\ wg = 0

\* the import returned a failure after two tasks ran at once
C5_Witness ==
    /\ pc = "imported"
    /\ importErr # NoErr
    /\ maxGoroutines >= 2
    /\ nbPages >= 3
    /\ Len(failOrder) >= 1

\* C6: the error initialImport returns after the fan-out is the error of the
\* task whose failure reached the group first; an error the group holds is
\* never replaced, and the step that records a failure changes no other task
C6_FirstError ==
    /\ []((pc = "imported" /\ failOrder # <<>>) =>
            /\ importErr.job = Head(failOrder)
            /\ importErr = Wrap("error during initial import", grpErr))
    /\ [][grpErr # NoErr => grpErr' = grpErr]_vars
    /\ [][failOrder' # failOrder =>
            \A p \in 2..MaxPages :
               p # failOrder'[Len(failOrder')] => job'[p] = job[p]]_vars

\* page 3 failed first, page 2 failed after it, and the import returned the
\* error of page 3
C6_Witness ==
    /\ pc = "imported"
    /\ failOrder = <<3, 2>>
    /\ importErr.job = 3

\* C7: no task of a page >= 2 is started and no page >= 2 is requested
\* unless the pipeline of page 1 has returned without error; when the
\* pipeline of page 1 failed, initialImport returns a failure at its next
\* step and no page >= 2 is ever requested
C7_FirstPageFirst ==
    /\ []((\E p \in 2..MaxPages : job[p].phase # "idle" \/ importReqs[p] > 0) =>
            (outcome[1] = "ok" /\ job[1].phase = "finished"))
    /\ []((outcome[1] = "err" /\ pc # "firstPage") =>
            /\ importErr # NoErr
            /\ ImportReturned
            /\ \A p \in 2..MaxPages : importReqs[p] = 0 /\ job[p].phase = "idle")
    /\ [][(pc = "firstPage" /\ outcome[1] = "err" /\ pc' # pc) =>
            pc' = "imported"]_vars

\* the first page failed and the import returned its error
C7_Witness ==
    /\ pc = "imported"
    /\ outcome[1] = "err"
    /\ importErr # NoErr
    /\ importReqs[1] = 1

\* C8: with maxGoroutines >= 1, when every network call returns and the
\* page tasks are scheduled fairly, initialImport eventually returns,
\* whatever total the first page reported
C8_ImportReturns == (maxGoroutines >= 1) ~> ImportReturned

\* the import returned after draining a fan-out whose last page failed
C8_Witness ==
    /\ pc = "imported"
    /\ maxGoroutines = 1
    /\ nbPages = 3
    /\ outcome[2] = "ok"
    /\ outcome[3] = "err"

(* ========================= properties of Start ========================= *)
InLoop == pc \in {"loop", "refresh", "stopped"}

\* C9: a failed initial import and failed refreshes do not end the importer:
\* the failure of the import is logged and the loop entered, a refresh that
\* returns, failed or not, leads back to the select of the loop with its
\* failure logged, a pending tick can then start the next refresh, and Start
\* returns only from the select, after the context was cancelled
C9_FailuresOnlyLogged ==
    /\ [](pc = "stopped" => cancelled)
    /\ [][(pc' = "stopped" /\ pc # "stopped") => (pc = "loop" /\ cancelled)]_vars
    /\ [][(pc = "imported" /\ pc' # pc) => pc' = "loop"]_vars
    /\ []((InLoop /\ importErr # NoErr) =>
            "Failed to perform initial import" \in logs)
    /\ [][(pc = "refresh" /\ pc' # pc) =>
            /\ pc' = "loop"
            /\ job[RefreshJob].err # NoErr => "Failed to pull last posts" \in logs']_vars
    /\ []((pc = "loop" /\ tickPending /\ refreshes < MaxRefreshes) =>
            ENABLED LoopTick)

\* after a failed import and a failed refresh a second refresh is running
C9_Witness ==
    /\ pc = "refresh"
    /\ refreshes = 2
    /\ importErr # NoErr
    /\ "Failed to pull last posts" \in logs
    /\ ~cancelled

\* C10: a refresh runs only after initialImport has returned and all its
\* tasks have ended; the refreshes run one after another, each sending its
\* request before the next one starts, and a tick that arrives during a
\* refresh starts none; a refresh requests page 1 only and starts no task
\* of the fan-out, whatever total it is answered
C10_RefreshSequential ==
    /\ [](job[RefreshJob].phase \in Running => pc = "refresh")
    /\ []((refreshes > 0 \/ \E p \in Pages : refreshReqs[p] > 0) =>
            /\ InLoop
            /\ InFlight = {}
            /\ job[1].phase \notin Running)
    /\ [](/\ refreshReqs[1] <= refreshes
          /\ refreshes - refreshReqs[1] <= 1
          /\ refreshReqs[1] < refreshes => job[RefreshJob].phase = "started"
          /\ \A p \in 2..MaxPages : refreshReqs[p] = 0)
    /\ [][pc = "refresh" => refreshes' = refreshes]_vars
    /\ [][InLoop => (importReqs' = importReqs /\ \A p \in Pages : job'[p] = job[p])]_vars

\* a tick arrived during the second refresh, whose answer reports two pages
C10_Witness ==
    /\ pc = "refresh"
    /\ refreshes = 2
    /\ tickPending
    /\ job[RefreshJob].phase = "fetched"
    /\ job[RefreshJob].n >= 2

\* C11 as stated: once the context is cancelled the next check of the loop
\* leaves it, and starts no refresh
C11_ExitsAtNextCheck ==
    [][(cancelled /\ pc = "loop" /\ pc' # pc) => pc' = "stopped"]_vars

\* C11: once the context is cancelled the loop eventually returns, from a
\* select that takes ctx.Done(); a select that finds a tick pending as well
\* may take the tick and start one more refresh first; the cancellation
\* changes nothing of a refresh in flight, which runs to its return, failed
\* or not, before the loop checks again
C11_CancelStops ==
    /\ (cancelled /\ InLoop) ~> (pc = "stopped")
    /\ [][(pc' = "stopped" /\ pc # "stopped") => (pc = "loop" /\ cancelled)]_vars
    /\ [][(cancelled' /\ ~cancelled) => (job' = job /\ pc' = pc)]_vars
    /\ [][(cancelled /\ pc = "refresh" /\ pc' # pc) =>
            (job[RefreshJob].phase = "returning" /\ pc' = "loop")]_vars
    /\ []((cancelled /\ pc = "loop" /\ tickPending /\ refreshes < MaxRefreshes) =>
            (ENABLED LoopTick /\ ENABLED LoopDone))

\* Start has ended after the cancellation, with two refreshes behind it, one
\* of them failed
C11_Witness ==
    /\ pc = "stopped"
    /\ refreshes = 2
    /\ refreshReqs[1] = 2
    /\ "Failed to pull last posts" \in logs

\* C12: CreateVectorIndex returns no error when the index is created and
\* when it exists already, and after any other failure of it the importer
\* runs neither the initial import nor the refresh loop
C12_IndexFailureFatal ==
    /\ \A ex \in BOOLEAN : \A ans \in FTCreateAnswers(ex) :
          ans \in {"OK", "Index already exists"} => CreateVectorIndex(ans) = NoErr
    /\ "Failed to create index" \in logs =>
          /\ pc \notin {"firstPage", "dispatch", "wait", "imported", "loop", "refresh"}
          /\ \A j \in Jobs : job[j].phase = "idle"
          /\ \A p \in Pages : importReqs[p] = 0 /\ refreshReqs[p] = 0

(* ===================== properties of the page pipeline ================= *)
\* the store as it is when Start is called: no record under any key
EmptyStore == [k \in Keys |-> NoRecord]
\* the call of StoreArticles made by the refresh returns in this step
StoreReturns ==
    job[RefreshJob].phase = "vectorized" /\ job'[RefreshJob].phase = "returning"

\* C13: when the first StoreArticles call on an empty store returns, with or
\* without error, either every article of its batch has its record or the
\* store holds no record at all
C13_AllOrNothing ==
    [][(refreshes = 1 /\ StoreReturns) =>
         LET arts == ToStoreArticles(job[RefreshJob].vecs)
         IN \/ store' = EmptyStore
            \/ \A i \in 1..Len(arts) : store'[Key(arts[i].Title)] # NoRecord]_vars

\* the article of the command the store processes next for the call of job j
NextArticle(j) == ToStoreArticles(job[j].vecs)[job[j].sent + 1]
\* the record an article is stored as
RecordOf(a) == [title |-> a.Title, link |-> a.Link, embedding |-> a.Embedding]

\* C14: every record sits under the key "article:" + its title, so a title
\* has one record at most; the store changes only when a command of a
\* pipeline takes effect, and the record under the key of its article is
\* then the one of that article, whatever record was there, while the
\* records under the other keys stay: a key holds its most recent write
C14_LastWriteWins ==
    /\ [](\A k \in Keys : store[k] # NoRecord => k = Key(store[k].title))
    /\ [][store' # store =>
            \E j \in Jobs :
               /\ job[j].phase = "vectorized"
               /\ job'[j] # job[j]
               /\ store'[Key(NextArticle(j).Title)] = RecordOf(NextArticle(j))
               /\ \A k \in Keys \ {Key(NextArticle(j).Title)} :
                     store'[k] = store[k]]_vars
    /\ [][\A j \in Jobs :
            (job[j].phase = "vectorized" /\ job'[j] # job[j] /\ job'[j].err = NoErr
             /\ ~job'[j].failed /\ job[j].vecs # <<>>) =>
               store'[Key(NextArticle(j).Title)] = RecordOf(NextArticle(j))]_vars

\* two page tasks write the same title at once: the command of page 3 took
\* effect after page 2 had stored another link and embedding under the key,
\* which now holds what page 3 wrote
C14_Witness ==
    /\ outcome[2] = "ok"
    /\ Len(written[2]) = 1
    /\ job[3].phase = "returning"
    /\ job[3].err = NoErr
    /\ Len(written[3]) = 1
    /\ written[3][1][1].Title = written[2][1][1].Title
    /\ written[3][1][1].Link # written[2][1][1].Link
    /\ written[3][1][1].Embedding # written[2][1][1].Embedding
    /\ store[Key(written[3][1][1].Title)] = RecordOf(written[3][1][1])

\* C17: the articles a page pipeline hands to the store are as many as the
\* posts of the response and as the embeddings the vectorizer returned, the
\* article at i carrying the title and the link of the post at i and the
\* embedding at i, and the store is sent them in that order
C17_OrderKept ==
    /\ [](\A j \in Jobs :
            job[j].phase = "vectorized" =>
               LET arts == ToStoreArticles(job[j].vecs)
               IN /\ Len(arts) = Len(job[j].posts)
                  /\ Len(arts) = Len(job[j].embs)
                  /\ \A i \in 1..Len(arts) :
                        /\ arts[i].Title = AsString(job[j].posts[i].title)
                        /\ arts[i].Link = job[j].posts[i].link
                        /\ arts[i].Embedding = job[j].embs[i])
    /\ [][\A j \in Jobs :
            (job[j].phase = "vectorized" /\ job'[j].phase = "vectorized"
             /\ job'[j] # job[j]) =>
               /\ job'[j].sent = job[j].sent + 1
               /\ store' # store =>
                     store'[Key(AsString(job[j].posts[job'[j].sent].title))].link
                        = job[j].posts[job'[j].sent].link]_vars

\* the first of two posts is stored with its embedding, the second, which
\* has another embedding, is the next to be sent
C17_Witness ==
    /\ job[RefreshJob].phase = "vectorized"
    /\ job[RefreshJob].posts = <<PostB, PostA2>>
    /\ job[RefreshJob].embs = <<<<1>>, <<2>>>>
    /\ job[RefreshJob].sent = 1
    /\ store[Key("b")] = [title |-> "b", link |-> "l2", embedding |-> <<1>>]

\* C18: a vectorizer service that answers a page pipeline with another
\* number of embeddings than the page has articles makes vectorizeArticles
\* fail; the step that vectorizes a page leaves the store as it is and
\* either ends the pipeline with an error and the page count 0 or pairs
\* every post of the page with an embedding, so that no batch shorter than
\* its page is ever with the store
C18_MismatchFails ==
    /\ [](\A j \in Jobs :
            job[j].phase = "fetched" =>
               \A resp \in VecResponses(vectorizer) :
                  (/\ resp.transport /\ resp.status = StatusOK /\ resp.bodyOk
                   /\ Len(resp.embeddings) # Len(job[j].articles)) =>
                     vectorizeArticles(j, job[j].articles, resp).err # NoErr)
    /\ [][\A j \in Jobs :
            (job[j].phase = "fetched" /\ job'[j] # job[j]) =>
               /\ store' = store
               /\ \/ /\ job'[j].phase = "returning"
                     /\ job'[j].err # NoErr
                     /\ job'[j].n = 0
                  \/ /\ job'[j].phase = "vectorized"
                     /\ Len(job'[j].vecs) = Len(job[j].posts)
                     /\ Len(job'[j].embs) = Len(job[j].posts)]_vars
    /\ [](\A j \in Jobs :
            job[j].phase = "vectorized" => Len(job[j].vecs) = Len(job[j].posts))

\* the first refresh ended on an answer with the wrong number of embeddings,
\* and the store is still empty
C18_Witness ==
    /\ refreshes = 1
    /\ job[RefreshJob].phase = "returning"
    /\ job[RefreshJob].err.chain =
          <<"failed to vectorize articles", "failed to vectorize articles in batch",
            "expected embeddings, got">>
    /\ job[RefreshJob].n = 0
    /\ store = EmptyStore

\* the exchange with the source went wrong: the Get failed, the header
\* X-WP-TotalPages is missing or no number, the status is not 200 or the
\* body does not decode
FetchFault(resp) ==
    \/ ~resp.transport
    \/ ~Atoi(resp.header).ok
    \/ resp.status # StatusOK
    \/ ~resp.bodyOk
\* the error of a call that failed at its fetch, at its vectorization
FailedAtFetch(e) == e # NoErr /\ e.chain[1] = "failed to fetch posts for page"
FailedAtVectorize(e) == e # NoErr /\ e.chain[1] = "failed to vectorize articles"

\* C19: every exchange with the source that went wrong makes fetchPostsPage
\* fail; a call of vectorizePostsPage that fails at its fetch returns from
\* the fetch, and one that fails at its vectorization from the
\* vectorization, with the page count 0 and the error; no step of a call
\* before its vectorization has succeeded changes the store, and a call
\* that has returned takes no further step of the pipeline
C19_EarlyFailures ==
    /\ [](\A j \in Jobs :
            job[j].phase = "started" =>
               \A resp \in HTTPResponses(source, pc = "firstPage", nbPages) :
                  FetchFault(resp) =>
                     /\ fetchPostsPage(j, resp).err # NoErr
                     /\ fetchPostsPage(j, resp).posts = <<>>)
    /\ [][\A j \in Jobs :
            (job[j].phase \in {"started", "fetched"} /\ job'[j] # job[j]) =>
               /\ store' = store
               /\ job'[j].phase \in
                     {IF job[j].phase = "started" THEN "fetched" ELSE "vectorized",
                      "returning"}
               /\ job'[j].phase = "returning" =>
                     /\ job'[j].n = 0
                     /\ IF job[j].phase = "started"
                        THEN FailedAtFetch(job'[j].err)
                        ELSE FailedAtVectorize(job'[j].err)]_vars
    /\ [](\A j \in Jobs :
            (FailedAtFetch(job[j].err) \/ FailedAtVectorize(job[j].err)) =>
               /\ job[j].phase = "returning"
               /\ job[j].n = 0
               /\ job[j].embs = <<>> /\ job[j].vecs = <<>> /\ job[j].sent = 0)
    /\ [][\A j \in Jobs :
            job[j].phase = "returning" =>
               job'[j].phase \notin {"fetched", "vectorized"}]_vars

\* the second refresh failed at its fetch on a header that is no number,
\* and the records of the first are in the store
C19_Witness ==
    /\ refreshes = 2
    /\ job[RefreshJob].phase = "returning"
    /\ job[RefreshJob].err.chain =
          <<"failed to fetch posts for page", "failed to parse total pages">>
    /\ job[RefreshJob].n = 0
    /\ store[Key("a")] # NoRecord
    /\ store[Key("b")] # NoRecord

\* C20: the error of every page task that failed, at its fetch, its
\* vectorization or its store, carries the number of its page when the task
\* returns it and when the group holds it, and the step in which a task
\* fails changes no other task
C20_PageInError ==
    /\ [](\A j \in 2..MaxPages :
            (job[j].phase = "returning" /\ job[j].err # NoErr) =>
               job[j].err.page = job[j].page)
    /\ [](grpErr # NoErr => grpErr.page = grpErr.job)
    /\ [][\A j \in 2..MaxPages :
            (job[j].phase # "returning" /\ job'[j].phase = "returning"
             /\ job'[j].err # NoErr) =>
               \A p \in Pages \ {j} : job'[p] = job[p]]_vars

\* C21: a call of vectorizePostsPage whose fetch succeeded with no post
\* returns without error, with the total of the header, and leaves the store
\* as it is
C21_EmptyPageOk ==
    [][\A j \in Jobs :
         (/\ job[j].phase \in {"fetched", "vectorized"}
          /\ job[j].posts = <<>>
          /\ job'[j].phase = "returning") =>
            /\ job'[j].err = NoErr
            /\ job'[j].n = job[j].n
            /\ store' = store]_vars

(* ================ properties of the vectorization client =============== *)
\* the service answered the call with a well-formed body
Answered == call.resp.transport /\ call.resp.status = StatusOK /\ call.resp.bodyOk
\* the embedding at index i of the answer decodes to bytes, and to some
Decodes(i) ==
    B64Decode(call.resp.embeddings[i]).ok
    /\ B64Decode(call.resp.embeddings[i]).bytes # <<>>

\* C15: VectorizeBatch on texts that are not empty returns either no error
\* and as many vectors as texts, the vector at i being the decoded
\* embedding at i of the answer, or an error and no vector at all; an
\* answer with another number of embeddings than texts gives the error
\* "expected %d embeddings, got %d", an embedding that does not decode or
\* decodes to no bytes gives the error naming its index
C15_BatchAligned ==
    (call.op = "VectorizeBatch" /\ call.texts # <<>>) =>
       LET out  == call.out
           embs == call.resp.embeddings
       IN /\ out.called
          /\ out.err = NoErr =>
                /\ Len(out.embeddings) = Len(call.texts)
                /\ \A i \in 1..Len(call.texts) :
                      Decodes(i) /\ out.embeddings[i] = B64Decode(embs[i]).bytes
          /\ out.err # NoErr => out.embeddings = <<>>
          /\ (Answered /\ Len(embs) # Len(call.texts)) =>
                out.err.chain = <<"expected embeddings, got">>
          /\ (Answered /\ Len(embs) = Len(call.texts)
              /\ \E i \in 1..Len(embs) : ~Decodes(i)) =>
                out.err.chain \in {<<"failed to decode embedding bytes at index">>,
                                   <<"received empty embedding at index">>}
          /\ (Answered /\ Len(embs) = Len(call.texts)
              /\ \A i \in 1..Len(embs) : Decodes(i)) => out.err = NoErr

\* two texts were answered with two different embeddings, returned in the
\* order of the answer
C15_Witness ==
    /\ call.op = "VectorizeBatch"
    /\ Len(call.texts) = 2
    /\ call.resp.embeddings = <<"Ag==", "AQ==">>
    /\ call.out.err = NoErr
    /\ call.out.embeddings = <<<<2>>, <<1>>>>

\* C16: VectorizeBatch on no text and Vectorize on the empty text return
\* the error "texts cannot be empty" and "text cannot be empty" and send no
\* request to the service
C16_EmptyRejected ==
    /\ (call.op = "VectorizeBatch" /\ call.texts = <<>>) =>
          /\ call.out.err.chain = <<"texts cannot be empty">>
          /\ ~call.out.called
          /\ call.out.embeddings = <<>>
    /\ (call.op = "Vectorize" /\ call.texts = <<"">>) =>
          /\ call.out.err.chain = <<"text cannot be empty">>
          /\ ~call.out.called
          /\ call.out.embedding = <<>>

\* Vectorize was called with the empty text while the service would have
\* answered with an embedding
C16_Witness ==
    /\ call.op = "Vectorize"
    /\ call.texts = <<"">>
    /\ call.resp = OkVecResponse(<<"AQ==">>)
    /\ call.out.err # NoErr

(* ==================== properties of the server ========================= *)
\* C22: handleSearch checks the method, the body, the embedding and the
\* search in this order and stops at the first failure: not POST is 405,
\* an undecodable body 400, a failed embedding 500 with the store never
\* called, a failed search 500; the answer is 200 only when all four pass,
\* and when they pass it is 200 unless a score cannot be encoded.
C22_ChecksInOrder ==
    Handled =>
        LET r == srv.req
            o == srv.out
            v == VectorizeText(r.query, srv.vresp)
            post == r.method = "POST"
        IN /\ ~post =>
                o.status = StatusMethodNotAllowed /\ ~o.vectorized /\ o.searches = 0
           /\ (post /\ ~r.bodyOk) =>
                o.status = StatusBadRequest /\ ~o.vectorized /\ o.searches = 0
           /\ (post /\ r.bodyOk /\ v.err # NoErr) =>
                o.status = StatusInternalServerError /\ o.vectorized /\ o.searches = 0
           /\ (post /\ r.bodyOk /\ v.err = NoErr /\ ~srv.ans.ok) =>
                o.status = StatusInternalServerError /\ o.searches = 1
           /\ o.status = StatusOK =>
                (post /\ r.bodyOk /\ v.err = NoErr /\ srv.ans.ok)
           /\ (post /\ r.bodyOk /\ v.err = NoErr /\ srv.ans.ok
                 /\ o.status # StatusOK) =>
                \E i \in 1..Len(srv.ans.docs) :
                   ParseScore(srv.ans.docs[i].vector_score) = NaN

C22_Witness ==
    /\ Handled
    /\ srv.req.method = "POST" /\ srv.req.bodyOk
    /\ srv.req.query # ""
    /\ srv.out.status = StatusInternalServerError
    /\ srv.out.vectorized /\ srv.out.requested
    /\ srv.out.searches = 0

\* C23: an answer of 200 comes from exactly one search with k = 10 and
\* carries the hits of the store in the order the store returned them,
\* the nearest first, each as (title, url = link, score), with count
\* their number.
C23_HitsInOrder ==
    (Handled /\ srv.out.status = StatusOK) =>
        LET o == srv.out
            d == srv.ans.docs
        IN /\ o.searches = 1
           /\ o.k = SearchK
           /\ o.embedding = VectorizeText(srv.req.query, srv.vresp).embedding
           /\ o.count = Len(o.results)
           /\ Len(o.results) = Len(d)
           /\ \A i \in 1..Len(d) :
                 o.results[i] = [Title |-> d[i].title, URL |-> d[i].link,
                                 Score |-> ParseScore(d[i].vector_score)]
           /\ \A i, j \in 1..Len(d) : i < j => d[i].dist <= d[j].dist

C23_Witness ==
    /\ Handled
    /\ srv.out.status = StatusOK
    /\ srv.out.count >= 2
    /\ srv.out.results[1].URL = "l1"
    /\ srv.out.results[2].URL = "l2"

\* C24: a POST with a decodable body and an empty query is not rejected:
\* with the store answering, it is answered 200 with a result set.
C24_EmptyQueryAnswered ==
    (/\ Handled
     /\ srv.req.method = "POST" /\ srv.req.bodyOk
     /\ srv.req.query = ""
     /\ srv.ans.ok) =>
        /\ srv.out.status = StatusOK
        /\ srv.out.count = Len(srv.out.results)

(* =================== the states of an import run ======================= *)
\* the state of the import run, from where Start is and what initialImport
\* returned
RunState ==
    CASE pc = "createIndex" -> "NotStarted"
      [] pc = "firstPage" -> "FetchingFirstPage"
      [] pc \in {"dispatch", "wait"} -> "FanningOutRemaining"
      [] OTHER ->
           IF importErr = NoErr THEN "Completed"
           ELSE IF Head(importErr.chain) = "failed to fetch number of pages"
                THEN "Failed"
                ELSE "PartiallyFailed"
RunMoves ==
    {<<"NotStarted", "FetchingFirstPage">>,
     <<"FetchingFirstPage", "Failed">>,
     <<"FetchingFirstPage", "FanningOutRemaining">>,
     <<"FanningOutRemaining", "PartiallyFailed">>,
     <<"FanningOutRemaining", "Completed">>}
RunTerminal == {"Failed", "PartiallyFailed", "Completed"}

\* C25: an import run moves only along NotStarted -> FetchingFirstPage ->
\* Failed, or -> FanningOutRemaining -> PartiallyFailed or Completed; the
\* last three are left no more and no page is requested again, no page is
\* requested twice in a run; the run fails exactly when the call for the
\* first page fails, and fails partially exactly when a task of the fan-out
\* failed.
C25_RunStates ==
    [][LET from == RunState
           to   == RunState'
       IN /\ from # to => <<from, to>> \in RunMoves
          /\ from \in RunTerminal => importReqs' = importReqs
          /\ \A q \in Pages : importReqs'[q] <= 1
          /\ (from = "FetchingFirstPage" /\ to # from) =>
                (to = "Failed" <=> job[1].err # NoErr)
          /\ (from = "FanningOutRemaining" /\ to # from) =>
                /\ to = "PartiallyFailed" <=> failOrder # <<>>
                /\ to = "Completed" <=> failOrder = <<>>]_vars

C25_Witness ==
    /\ RunState = "PartiallyFailed"
    /\ pc = "loop"
    /\ failOrder # <<>>
    /\ outcome[1] = "ok"

\* C26: the remaining work is scheduled from the total observed last: when
\* the call for a later page returns, while the loop is still dispatching,
\* with a total that differs from the one the loop runs to, the loop runs to
\* the new total from then on.
C26_ReplansOnDrift ==
    [][\A j \in 2..MaxPages :
         (/\ pc = "dispatch"
          /\ job[j].phase = "returning"
          /\ job'[j].phase = "finished"
          /\ job[j].err = NoErr
          /\ job[j].n # nbPages) =>
             nbPages' = job[j].n]_vars

(* ================= cancellation during the initial import ============== *)
\* C27: cancelling the context while initialImport runs does not stop it:
\* the loop still dispatches, a run that fanned out has requested each of
\* the pages 1..N when it returns, and Start returns only from its loop,
\* hence with no page task left running.
C27_CancelIgnored ==
    /\ []((cancelled /\ pc = "dispatch" /\ page <= nbPages /\ sem < maxGoroutines)
             => ENABLED Dispatch)
    /\ []((cancelled /\ ImportReturned /\ importErr = NoErr) =>
             \A q \in 1..nbPages : importReqs[q] = 1)
    /\ [](pc = "stopped" => (cancelled /\ wg = 0 /\ InFlight = {}))
    /\ [][pc' = "stopped" => (pc = "loop" /\ cancelled)]_vars

\* the context is cancelled while the task of page 2 is running
C27_Witness ==
    /\ cancelled
    /\ pc \in {"dispatch", "wait"}
    /\ job[2].phase = "fetched"

(* ======================= the titles of the documents =================== *)
\* C28: every document built from a response of the source and handed to
\* the store has a title that is not empty: every record of the store has a
\* title that is not empty and none lies under the key "article:" alone.
C28_TitlesNotEmpty ==
    /\ store[Key("")] = NoRecord
    /\ \A k \in Keys : store[k] # NoRecord => store[k].title # ""

(* ========================= the progress reports ======================== *)
\* the pages whose call has returned and, past the first, whose task has
\* left the group
Completed == {q \in 1..nbPages : job[q].phase = "finished"}
\* the number of reports due once the pages before pg are dispatched
ReportsBefore(pg) == IF pg < 2 THEN 0 ELSE (pg - 1) \div ProgressEvery

FailedPages == {q \in 2..MaxPages : outcome[q] = "err"}

\* C30: with maxGoroutines = 1 the task of a page starts only when the tasks
\* of all pages before it have finished and left their result with the
\* group, the tasks fail in increasing order of their pages, and the error
\* initialImport returns after the fan-out is the one of the lowest failing
\* page; with more goroutines it may be the one of any failing page.
C30_SequentialLowest ==
    /\ [][\A q \in 2..MaxPages :
            (maxGoroutines = 1 /\ TaskStarts(q)) =>
               /\ \A r \in 2..(q - 1) : job[r].phase = "finished"
               /\ Len(failOrder) = Cardinality({r \in FailedPages : r < q})]_vars
    /\ [](maxGoroutines = 1 =>
            /\ \A i, k \in 1..Len(failOrder) : i < k => failOrder[i] < failOrder[k]
            /\ (pc = "imported" /\ FailedPages # {}) =>
                  /\ importErr # NoErr
                  /\ \A r \in FailedPages : importErr.job <= r
                  /\ importErr.job \in FailedPages)

\* with two goroutines the import returns the error of page 3 although page
\* 2 failed as well
C30_Witness ==
    /\ maxGoroutines = 2
    /\ pc = "imported"
    /\ {2, 3} \subseteq FailedPages
    /\ importErr.job = 3

(* ==================== a group without any goroutine ==================== *)
\* C31: nothing raises maxGoroutines to 1: with maxGoroutines = 0 and a first
\* page that reported two pages or more, the loop stays at the dispatch of
\* page 2, which grp.Go never admits, no later page is ever requested and
\* initialImport never returns; with a total of one page or none, and with
\* a first page that failed, initialImport still returns.
C31_ZeroLimitBlocks ==
    /\ []((maxGoroutines = 0 /\ pc # "firstPage" /\ nbPages >= 2) =>
             /\ pc = "dispatch"
             /\ page = 2
             /\ ~ENABLED Dispatch
             /\ ~ENABLED LoopExit
             /\ ~ImportReturned
             /\ \A q \in 2..MaxPages : job[q].phase = "idle" /\ importReqs[q] = 0)
    /\ ((maxGoroutines = 0 /\ pc # "firstPage" /\ nbPages <= 1) ~> ImportReturned)
    /\ ((maxGoroutines = 0 /\ pc = "firstPage") ~>
           (ImportReturned \/ (pc = "dispatch" /\ nbPages >= 2)))

\* the first page reported three pages and the loop stands at page 2, with
\* no goroutine allowed
C31_Witness ==
    /\ maxGoroutines = 0
    /\ pc = "dispatch"
    /\ nbPages = 3
    /\ page = 2
    /\ job[1].phase = "finished"
    /\ outcome[1] = "ok"
    /\ ~ENABLED NextImport

====
